---------------------------- MODULE Spec2Model ----------------------------
(***************************************************************************)
(* The invitation lifecycle of aurora-be: InvitationService                *)
(* (services/invitation_service.py) over the aurora_invitations table      *)
(* (models/invitation.py, alembic/versions/20250213_000002_...py), as the  *)
(* routes of routers/invitations.py call it.                               *)
(*                                                                         *)
(* Every call of the service runs in a request of its own, with its own    *)
(* database session.  A call is a sequence of steps, one per database      *)
(* round trip (an await): the SELECT that loads the row into the session,  *)
(* then the commit that flushes the changed columns as                     *)
(*     UPDATE aurora_invitations SET <changed columns> WHERE id = <id>.    *)
(* Between the steps of one call the steps of other calls may run.  The    *)
(* service takes no row lock (no SELECT ... FOR UPDATE), has no version    *)
(* column and states no isolation level, so the store's default applies:   *)
(* every statement sees the rows committed before it.                      *)
(*                                                                         *)
(* Time is counted in days.  Tokens come from secrets.token_urlsafe(32),   *)
(* 256 random bits: a generated token is taken to be new, and SHA-256 to   *)
(* be one-to-one on the tokens in use.                                     *)
(*                                                                         *)
(* The specifications:                                                     *)
(*   Spec       requests interleave step by step, and rows are             *)
(*              soft-deleted from outside the service;                     *)
(*   SeqSpec    the calls of the service run one after another, and        *)
(*              nothing else writes the table;                             *)
(*   SeqDelSpec as SeqSpec, with rows soft-deleted between the calls;      *)
(*   RouteSpec, NotifySpec, AcceptSpec  as SeqSpec, with the steps the     *)
(*              routes take after a call: the e-mail, the membership;      *)
(*   CollideSpec  as SeqDelSpec, with tokens that may repeat;              *)
(*   FailSpec   as SeqSpec, over a store whose commits may fail;           *)
(*   ListSpec, FilterSpec  list, with its pages and with its filters,      *)
(*              among the calls that fill the table;                       *)
(*   PageSpec, StatsSpec  list and get_stats, query by query, while        *)
(*              other requests write;                                      *)
(*   LiveSpec   the requests of one process, with the sweep run again and  *)
(*              again by a scheduler (weak fairness on its steps).         *)
(***************************************************************************)
EXTENDS Integers, Sequences, FiniteSets, TLC

\* ------------------------------------------------------------ bounds
NumProcs == 2
MaxRows == 2
MaxTokens == 3
MaxTime == 8
MaxOps == 4

\* ------------------------------------------------------------ configuration
\* config.py: AuroraConfig.invitation_expiry_days
invitation_expiry_days == 7
\* config.py: AuroraConfig.max_page_size
max_page_size == 100

\* ------------------------------------------------------------ values
None == <<>>
Some(v) == <<v>>

Procs == 1..NumProcs
\* the authenticated caller of a request: CurrentUser and TenantContext
Callers == {[user |-> "u1", tenant |-> "T1"], [user |-> "u2", tenant |-> "T2"]}
\* request bodies of POST /invitations (schemas.InvitationCreate)
CreateRequests ==
    { [email |-> "a@x.com", name |-> None, client_ids |-> None,
       role_group_ids |-> None, message |-> None],
      [email |-> "A@x.com", name |-> Some("Ann"), client_ids |-> Some(<<"c1">>),
       role_group_ids |-> Some(<<"g1">>), message |-> Some("welcome")] }
\* the same, and a request for a second address
MoreRequests ==
    CreateRequests \cup
        { [email |-> "b@x.com", name |-> None, client_ids |-> None,
           role_group_ids |-> None, message |-> None] }
\* the page and page_size arguments of list: below, at and above their limits
PageArgs == {0, 1, 2, 3}
PageSizeArgs == {-1, 0, 1, 2, 150}
\* the raw tokens a client may present
RawTokens == {<<"token", n>> : n \in 1..MaxTokens}

\* a message built from the status value as it is, not lowercased
lower_Missing(s) == s

\* str.lower(), on the e-mail addresses of the requests and on the status values
lower(s) ==
    CASE s = "A@x.com" -> "a@x.com"
      [] s = "PENDING" -> "pending"
      [] s = "ACCEPTED" -> "accepted"
      [] s = "EXPIRED" -> "expired"
      [] s = "REVOKED" -> "revoked"
      [] OTHER -> s

\* the token stored as it is
hash_token_Plain(token) == token

\* InvitationService.hash_token: the SHA-256 digest of the raw token
hash_token(token) == <<"sha256", token[2]>>

VARIABLES
    db,      \* aurora_invitations: the committed rows, db[id] the row of that id
    now,     \* datetime.now(timezone.utc), in days
    issued,  \* how many tokens generate_token has returned
    call,    \* call[p]: the call request p is in, its position and its session
    res,     \* res[p]: the last call of request p, and what it returned or raised
    ops,     \* how many operations have begun
    outbox,  \* the invitation e-mails the e-mail provider has accepted
    current_user, \* current_user[p]: the user of the accept route of request p,
                  \* from where the service has returned the invitation to it
    members, \* the calls the membership service has received, in order
    logged   \* the invitation e-mails whose sending failed and was logged

vars == <<db, now, issued, call, res, ops, outbox, current_user, members, logged>>

\* InvitationService.generate_token: a token not returned before
generate_token == <<"token", issued + 1>>

\* ------------------------------------------------------------ the store
Ids == 1..Len(db)

\* idx_aurora_unique_pending: UNIQUE (tenant_id, email)
\* WHERE status = 'PENDING' AND deleted_at IS NULL
UniquePendingOk(rows) ==
    \A i, j \in 1..Len(rows) :
        (/\ i # j
         /\ rows[i].status = "PENDING" /\ rows[i].deleted_at = None
         /\ rows[j].status = "PENDING" /\ rows[j].deleted_at = None)
            => ~(rows[i].tenant_id = rows[j].tenant_id /\ rows[i].email = rows[j].email)

\* token_hash VARCHAR(64) NOT NULL UNIQUE
UniqueTokenHashOk(rows) ==
    \A i, j \in 1..Len(rows) : i # j => rows[i].token_hash # rows[j].token_hash

\* the store without the UNIQUE constraint of token_hash
ConstraintsOk_NoTokenUnique(rows) == UniquePendingOk(rows)

\* the store without idx_aurora_unique_pending
ConstraintsOk_NoPendingIndex(rows) == UniqueTokenHashOk(rows)

\* what the store checks when a transaction commits
ConstraintsOk(rows) == UniquePendingOk(rows) /\ UniqueTokenHashOk(rows)

\* a flush that writes every column of the loaded row back
Flush_WholeRow(rows, inv, changes) ==
    [rows EXCEPT ![inv.id] =
        [f \in DOMAIN rows[inv.id] |->
            IF f \in DOMAIN changes THEN changes[f] ELSE inv.row[f]]]

\* the flush of a loaded row: UPDATE ... SET <the columns whose value differs
\* from the loaded one> WHERE id = inv.id
Flush(rows, inv, changes) ==
    [rows EXCEPT ![inv.id] =
        [f \in DOMAIN rows[inv.id] |->
            IF f \in DOMAIN changes /\ changes[f] # inv.row[f]
            THEN changes[f] ELSE rows[inv.id][f]]]

\* a row loaded into the session: its id and the column values read
Loaded(id) == [id |-> id, row |-> db[id]]

\* ------------------------------------------------------------ queries
\* get without its tenant condition
get_AnyTenant(invitation_id, tenant_id) ==
    {i \in Ids : i = invitation_id /\ db[i].deleted_at = None}

\* get without its deleted_at condition
get_WithDeleted(invitation_id, tenant_id) ==
    {i \in Ids : i = invitation_id /\ db[i].tenant_id = tenant_id}

\* InvitationService.get
get(invitation_id, tenant_id) ==
    {i \in Ids : /\ i = invitation_id
                 /\ db[i].tenant_id = tenant_id
                 /\ db[i].deleted_at = None}

\* InvitationService.get_by_token
get_by_token(token) ==
    {i \in Ids : /\ db[i].token_hash = hash_token(token)
                 /\ db[i].deleted_at = None}

\* the pre-check counting the invitations of every status
get_pending_by_email_AnyStatus(email, tenant_id) ==
    {i \in Ids : /\ db[i].email = lower(email)
                 /\ db[i].tenant_id = tenant_id
                 /\ db[i].deleted_at = None}

\* the pre-check passing over the invitations whose expiry has passed
get_pending_by_email_Unexpired(email, tenant_id) ==
    {i \in Ids : /\ db[i].email = lower(email)
                 /\ db[i].tenant_id = tenant_id
                 /\ db[i].status = "PENDING"
                 /\ db[i].expires_at >= now
                 /\ db[i].deleted_at = None}

\* the pre-check comparing the e-mail as given, not lowercased
get_pending_by_email_NoLower(email, tenant_id) ==
    {i \in Ids : /\ db[i].email = email
                 /\ db[i].tenant_id = tenant_id
                 /\ db[i].status = "PENDING"
                 /\ db[i].deleted_at = None}

\* InvitationService._get_pending_by_email
get_pending_by_email(email, tenant_id) ==
    {i \in Ids : /\ db[i].email = lower(email)
                 /\ db[i].tenant_id = tenant_id
                 /\ db[i].status = "PENDING"
                 /\ db[i].deleted_at = None}

\* the filters of a list request (schemas.InvitationFilter): no clause, or one
\* clause, or several at once
NoFilter ==
    [status |-> None, email |-> None, created_after |-> None,
     created_before |-> None, invited_by |-> None]
Filters ==
    { NoFilter,
      [NoFilter EXCEPT !.status = Some("PENDING")],
      [NoFilter EXCEPT !.email = Some("A@X")],
      [NoFilter EXCEPT !.email = Some("b@")],
      [NoFilter EXCEPT !.invited_by = Some("u1")],
      [NoFilter EXCEPT !.created_after = Some(invitation_expiry_days)],
      [NoFilter EXCEPT !.status = Some("EXPIRED"), !.created_before = Some(0)] }

\* Invitation.email.ilike(f"%{pattern}%"): the pattern occurs in the address,
\* letter case ignored.  The stored addresses are the lowercased ones of MoreRequests.
ilike(email, pattern) ==
    CASE pattern = "A@X" -> email = "a@x.com"
      [] pattern = "b@" -> email = "b@x.com"
      [] OTHER -> FALSE

\* the clauses with the bounds of the created_at range left out of the range
apply_filters_StrictBounds(row, filter) ==
    /\ filter.status # None => row.status = filter.status[1]
    /\ filter.email # None => ilike(row.email, filter.email[1])
    /\ filter.created_after # None => row.created_at > filter.created_after[1]
    /\ filter.created_before # None => row.created_at < filter.created_before[1]
    /\ filter.invited_by # None => row.invited_by = filter.invited_by[1]

\* InvitationService._apply_filters: every clause the filter has, at once
apply_filters(row, filter) ==
    /\ filter.status # None => row.status = filter.status[1]
    /\ filter.email # None => ilike(row.email, filter.email[1])
    /\ filter.created_after # None => row.created_at >= filter.created_after[1]
    /\ filter.created_before # None => row.created_at <= filter.created_before[1]
    /\ filter.invited_by # None => row.invited_by = filter.invited_by[1]

\* the list query without its deleted_at condition
list_query_WithDeleted(tenant_id, filter) ==
    {i \in Ids : /\ db[i].tenant_id = tenant_id
                 /\ apply_filters(db[i], filter)}

\* InvitationService.list, lines 153-162: the rows of the query, before ordering
\* and pagination
list_query(tenant_id, filter) ==
    {i \in Ids : /\ db[i].tenant_id = tenant_id
                 /\ db[i].deleted_at = None
                 /\ apply_filters(db[i], filter)}

\* InvitationService.list, lines 167-170: the count of the query
list_total(tenant_id, filter) == Cardinality(list_query(tenant_id, filter))

Min(a, b) == IF a <= b THEN a ELSE b
Max(a, b) == IF a >= b THEN a ELSE b

\* Python's a // b for b # 0: the quotient rounded down
FloorDiv(a, b) == IF b > 0 THEN a \div b ELSE (0 - a) \div (0 - b)

\* line 165, ORDER BY created_at DESC: the orders in which the store may return the
\* rows.  Rows with equal created_at come in any order, and not in the same order
\* from one execution of the query to the next.
Ordered(ids) ==
    { o \in [1..Cardinality(ids) -> ids] :
        /\ \A k, l \in 1..Cardinality(ids) : k # l => o[k] # o[l]
        /\ \A k, l \in 1..Cardinality(ids) :
              k < l => db[o[k]].created_at >= db[o[l]].created_at }

\* lines 173-175: OFFSET offset LIMIT page_size of the ordered rows
Slice(o, offset, page_size) ==
    [k \in 1..Max(0, Min(page_size, Len(o) - offset)) |-> o[offset + k]]

\* the rows get_stats counts: base_filter
stats_base(tenant_id) ==
    {i \in Ids : db[i].tenant_id = tenant_id /\ db[i].deleted_at = None}

\* datetime.weekday(): day 0 of the clock is taken to be a Monday
weekday(t) == t % 7

\* InvitationService.get_stats
get_stats(tenant_id) ==
    LET base == stats_base(tenant_id)
        count(st) == Cardinality({i \in base : db[i].status = st})
        today_start == now
        week_start == today_start - weekday(now)
    IN  [total |-> Cardinality(base),
         pending |-> count("PENDING"),
         accepted |-> count("ACCEPTED"),
         expired |-> count("EXPIRED"),
         revoked |-> count("REVOKED"),
         sent_today |-> Cardinality({i \in base : db[i].created_at >= today_start}),
         sent_this_week |-> Cardinality({i \in base : db[i].created_at >= week_start})]

\* ------------------------------------------------------------ calls
Idle == [pc |-> "idle"]
NoResult == [op |-> "none", kind |-> "none"]
\* the call returned: the invitation (its id) and, from create and resend, the raw token
Returned(op, arg, id, token) ==
    [op |-> op, arg |-> arg, kind |-> "ok", id |-> id, token |-> token]
\* the call raised
Raised(op, arg, exc, msg) == [op |-> op, arg |-> arg, kind |-> exc, msg |-> msg]

Finish(p, r) ==
    /\ call' = [call EXCEPT ![p] = Idle]
    /\ res' = [res EXCEPT ![p] = r]

Goto(p, c) ==
    /\ call' = [call EXCEPT ![p] = c]
    /\ res' = [res EXCEPT ![p] = NoResult]

\* request p begins a call
Begin(p) ==
    /\ call[p].pc = "idle"
    /\ ops < MaxOps
    /\ ops' = ops + 1

\* calls that will still insert a row, calls that will still generate a token
Creating == {p \in Procs : call[p].pc = "create_insert"}
Generating == {p \in Procs : call[p].pc \in {"create_insert", "resend_commit"}}

\* ------------------------------------------------------------ create
\* lines 67-70: the pre-check
create_check(p, req, caller) ==
    /\ Begin(p)
    /\ Len(db) + Cardinality(Creating) < MaxRows
    /\ issued + Cardinality(Generating) < MaxTokens
    /\ IF get_pending_by_email(req.email, caller.tenant) # {}
       THEN Finish(p, Raised("create", req.email, "ValueError",
                <<"Pending invitation already exists for", req.email>>))
       ELSE Goto(p, [pc |-> "create_insert", req |-> req, caller |-> caller])
    /\ UNCHANGED <<db, now, issued, outbox, current_user, members, logged>>

\* the row built with the e-mail address as given
NewInvitation_EmailAsGiven(req, caller, raw_token) ==
    [email |-> req.email, name |-> req.name, tenant_id |-> caller.tenant,
     client_ids |-> req.client_ids, role_group_ids |-> req.role_group_ids,
     status |-> "PENDING", invited_by |-> caller.user,
     token_hash |-> hash_token(raw_token), created_at |-> now,
     expires_at |-> now + invitation_expiry_days, accepted_at |-> None,
     revoked_at |-> None, revoked_by |-> None, deleted_at |-> None,
     message |-> req.message]

\* lines 72-92: the row create builds
NewInvitation(req, caller, raw_token) ==
    [email |-> lower(req.email),
     name |-> req.name,
     tenant_id |-> caller.tenant,
     client_ids |-> req.client_ids,
     role_group_ids |-> req.role_group_ids,
     status |-> "PENDING",
     invited_by |-> caller.user,
     token_hash |-> hash_token(raw_token),
     created_at |-> now,
     expires_at |-> now + invitation_expiry_days,
     accepted_at |-> None,
     revoked_at |-> None,
     revoked_by |-> None,
     deleted_at |-> None,
     message |-> req.message]

\* lines 76-98: with the token generated, insert, commit, refresh, return
create_insert_token(p, raw_token) ==
    /\ call[p].pc = "create_insert"
    /\ LET rows == Append(db, NewInvitation(call[p].req, call[p].caller, raw_token))
       IN  /\ issued' = issued + 1
           /\ IF ConstraintsOk(rows)
              THEN /\ db' = rows
                   /\ Finish(p, Returned("create", call[p].req.email, Len(rows), raw_token))
              ELSE /\ db' = db
                   /\ Finish(p, Raised("create", call[p].req.email, "IntegrityError",
                            <<"duplicate key value violates unique constraint">>))
    /\ UNCHANGED <<now, ops, outbox, current_user, members, logged>>

\* lines 72-98: generate the token, insert, commit, refresh, return
create_insert(p) == create_insert_token(p, generate_token)

\* ------------------------------------------------------------ accept
\* lines 234-237: load the row by the hash of the token
accept_read(p, token, caller) ==
    /\ Begin(p)
    /\ IF get_by_token(token) = {}
       THEN Finish(p, Raised("accept", token, "ValueError", <<"Invalid invitation token">>))
       ELSE \E i \in get_by_token(token) :
                Goto(p, [pc |-> "accept_check", inv |-> Loaded(i),
                         token |-> token, caller |-> caller])
    /\ UNCHANGED <<db, now, issued, outbox, current_user, members, logged>>

\* accept without its status check
accept_not_pending_Missing(row) == FALSE

\* line 239
accept_not_pending(row) == row.status # "PENDING"

\* accept without its expiry check
accept_expired_Missing(row) == FALSE

\* the expiry check counting the day of expiry as expired
accept_expired_Inclusive(row) == row.expires_at <= now

\* line 242
accept_expired(row) == row.expires_at < now

\* lines 239-242: the status check and the expiry check, on the loaded row
accept_check(p) ==
    /\ call[p].pc = "accept_check"
    /\ IF accept_not_pending(call[p].inv.row)
       THEN Finish(p, Raised("accept", call[p].token, "ValueError",
                <<"Invitation is", lower(call[p].inv.row.status)>>))
       ELSE IF accept_expired(call[p].inv.row)
            THEN Goto(p, [call[p] EXCEPT !.pc = "accept_expire"])
            ELSE Goto(p, [call[p] EXCEPT !.pc = "accept_commit"])
    /\ UNCHANGED <<db, now, issued, ops, outbox, current_user, members, logged>>

\* lines 243-246: mark as expired, commit, raise
accept_expire(p) ==
    /\ call[p].pc = "accept_expire"
    /\ db' = Flush(db, call[p].inv, [status |-> "EXPIRED"])
    /\ Finish(p, Raised("accept", call[p].token, "ValueError", <<"Invitation has expired">>))
    /\ UNCHANGED <<now, issued, ops, outbox, current_user, members, logged>>

\* lines 248-258: accept, commit, refresh, return
accept_commit(p) ==
    /\ call[p].pc = "accept_commit"
    /\ db' = Flush(db, call[p].inv, [status |-> "ACCEPTED", accepted_at |-> Some(now)])
    /\ Finish(p, Returned("accept", call[p].token, call[p].inv.id, None))
    /\ current_user' = [current_user EXCEPT ![p] = Some(call[p].caller.user)]
    /\ UNCHANGED <<now, issued, ops, outbox, members, logged>>

\* ------------------------------------------------------------ revoke
\* revoke without its status check
revoke_not_pending_Missing(row) == FALSE

\* line 272
revoke_not_pending(row) == row.status # "PENDING"

\* lines 267-273: load the row by id and tenant, check its status
revoke_read(p, invitation_id, caller) ==
    /\ Begin(p)
    /\ IF get(invitation_id, caller.tenant) = {}
       THEN Finish(p, Raised("revoke", invitation_id, "ValueError", <<"Invitation not found">>))
       ELSE IF revoke_not_pending(db[invitation_id])
            THEN Finish(p, Raised("revoke", invitation_id, "ValueError",
                     <<"Cannot revoke", lower(db[invitation_id].status), "invitation">>))
            ELSE Goto(p, [pc |-> "revoke_commit", inv |-> Loaded(invitation_id),
                          caller |-> caller])
    /\ UNCHANGED <<db, now, issued, outbox, current_user, members, logged>>

\* revoke that does not record who revoked
revoke_changes_NoRevokedBy(revoked_by) ==
    [status |-> "REVOKED", revoked_at |-> Some(now)]

\* lines 275-277: the columns revoke sets
revoke_changes(revoked_by) ==
    [status |-> "REVOKED", revoked_at |-> Some(now), revoked_by |-> Some(revoked_by)]

\* lines 275-282: revoke, commit, refresh, return
revoke_commit(p) ==
    /\ call[p].pc = "revoke_commit"
    /\ db' = Flush(db, call[p].inv, revoke_changes(call[p].caller.user))
    /\ Finish(p, Returned("revoke", call[p].inv.id, call[p].inv.id, None))
    /\ UNCHANGED <<now, issued, ops, outbox, current_user, members, logged>>

\* ------------------------------------------------------------ resend
\* resend that also takes an invitation that has expired
resend_not_pending_OrExpired(row) == row.status \notin {"PENDING", "EXPIRED"}

\* resend that also refuses an invitation whose expiry has passed
resend_not_pending_OrPastExpiry(row) == row.status # "PENDING" \/ row.expires_at < now

\* line 300
resend_not_pending(row) == row.status # "PENDING"

\* lines 295-301: load the row by id and tenant, check its status
resend_read(p, invitation_id, caller) ==
    /\ Begin(p)
    /\ issued + Cardinality(Generating) < MaxTokens
    /\ IF get(invitation_id, caller.tenant) = {}
       THEN Finish(p, Raised("resend", invitation_id, "ValueError", <<"Invitation not found">>))
       ELSE IF resend_not_pending(db[invitation_id])
            THEN Finish(p, Raised("resend", invitation_id, "ValueError",
                     <<"Cannot resend", lower(db[invitation_id].status), "invitation">>))
            ELSE Goto(p, [pc |-> "resend_commit", inv |-> Loaded(invitation_id)])
    /\ UNCHANGED <<db, now, issued, outbox, current_user, members, logged>>

\* resend that resets the expiry and leaves the token hash as it was
resend_changes_KeepHash(raw_token) ==
    [expires_at |-> now + invitation_expiry_days]

\* lines 303-310: the columns resend sets
resend_changes(raw_token) ==
    [token_hash |-> hash_token(raw_token),
     expires_at |-> now + invitation_expiry_days]

\* lines 305-315: with the token generated, new hash, new expiry, commit,
\* refresh, return
resend_commit_token(p, raw_token) ==
    /\ call[p].pc = "resend_commit"
    /\ LET rows == Flush(db, call[p].inv, resend_changes(raw_token))
       IN  /\ issued' = issued + 1
           /\ IF ConstraintsOk(rows)
              THEN /\ db' = rows
                   /\ Finish(p, Returned("resend", call[p].inv.id, call[p].inv.id, raw_token))
              ELSE /\ db' = db
                   /\ Finish(p, Raised("resend", call[p].inv.id, "IntegrityError",
                            <<"duplicate key value violates unique constraint">>))
    /\ UNCHANGED <<now, ops, outbox, current_user, members, logged>>

\* lines 303-315: new token, new expiry, commit, refresh, return
resend_commit(p) == resend_commit_token(p, generate_token)

\* ------------------------------------------------------------ the sweep
\* the sweep selecting by expiry alone, whatever the status
Expirable_AnyStatus == {i \in Ids : /\ db[i].expires_at < now
                                    /\ db[i].deleted_at = None}

\* lines 467-478: the PENDING rows past their expiry
Expirable == {i \in Ids : /\ db[i].status = "PENDING"
                          /\ db[i].expires_at < now
                          /\ db[i].deleted_at = None}

expire_select(p) ==
    /\ Begin(p)
    /\ IF Expirable = {}
       THEN Finish(p, Returned("expire_old_invitations", None, 0, None))
       ELSE Goto(p, [pc |-> "expire_commit", invitations |-> {Loaded(i) : i \in Expirable}])
    /\ UNCHANGED <<db, now, issued, outbox, current_user, members, logged>>

\* the scheduler runs the sweep: expire_select, begun whenever the sweeper is at
\* rest and not counted among the operations of the requests
scheduled_select(p) ==
    /\ call[p].pc = "idle"
    /\ IF Expirable = {}
       THEN Finish(p, Returned("expire_old_invitations", None, 0, None))
       ELSE Goto(p, [pc |-> "expire_commit", invitations |-> {Loaded(i) : i \in Expirable}])
    /\ UNCHANGED <<db, now, issued, ops, outbox, current_user, members, logged>>

\* a sweep whose commit writes nothing
ExpireAll_Nothing(rows, invitations) == rows

\* lines 480-481: each selected row set to EXPIRED
ExpireAll(rows, invitations) ==
    [i \in 1..Len(rows) |->
        IF \E inv \in invitations : inv.id = i
        THEN Flush(rows, CHOOSE inv \in invitations : inv.id = i, [status |-> "EXPIRED"])[i]
        ELSE rows[i]]

\* lines 480-486: one commit for the batch; the count is returned (as id)
expire_commit(p) ==
    /\ call[p].pc = "expire_commit"
    /\ db' = ExpireAll(db, call[p].invitations)
    /\ Finish(p, Returned("expire_old_invitations", None,
                          Cardinality(call[p].invitations), None))
    /\ UNCHANGED <<now, issued, ops, outbox, current_user, members, logged>>

\* ------------------------------------------------------------ store failures
\* the calls that have reached their commit
Committing == {"create_insert", "accept_expire", "accept_commit",
               "revoke_commit", "resend_commit", "expire_commit"}

\* the operation a call at its commit belongs to, and its argument
commit_op(c) ==
    CASE c.pc = "create_insert" -> "create"
      [] c.pc \in {"accept_expire", "accept_commit"} -> "accept"
      [] c.pc = "revoke_commit" -> "revoke"
      [] c.pc = "resend_commit" -> "resend"
      [] c.pc = "expire_commit" -> "expire_old_invitations"

commit_arg(c) ==
    CASE c.pc = "create_insert" -> c.req.email
      [] c.pc \in {"accept_expire", "accept_commit"} -> c.token
      [] c.pc \in {"revoke_commit", "resend_commit"} -> c.inv.id
      [] c.pc = "expire_commit" -> None

\* a store failure answered as if the call had succeeded
commit_raises_Swallowed(op, arg) == Returned(op, arg, 0, None)

\* what a call gives its caller when its commit raises: the service has no
\* try/except around self.db.commit(), the exception of the store leaves the call
commit_raises(op, arg) ==
    Raised(op, arg, "OperationalError", <<"connection to the store lost">>)

\* await self.db.commit() raises (lines 95, 245, 252, 279, 312, 484): the
\* transaction is not committed, the exception leaves the call.  create and
\* resend have generated their token before.
commit_fails(p) ==
    /\ call[p].pc \in Committing
    /\ issued' = IF call[p].pc \in {"create_insert", "resend_commit"}
                 THEN issued + 1 ELSE issued
    /\ Finish(p, commit_raises(commit_op(call[p]), commit_arg(call[p])))
    /\ UNCHANGED <<db, now, ops, outbox, current_user, members, logged>>

\* ------------------------------------------------------------ list
\* what list returns: schemas.InvitationList, with the rows as their ids
InvitationList(arg, items, total, page, page_size, pages) ==
    [op |-> "list", arg |-> arg, kind |-> "ok", items |-> items, total |-> total,
     page |-> page, page_size |-> page_size, pages |-> pages]

\* lines 150-170: clamp page_size and page, build the query, run its count
list_count(p, tenant_id, filter, page, page_size) ==
    /\ Begin(p)
    /\ Goto(p, [pc |-> "list_items",
                arg |-> [tenant_id |-> tenant_id, filter |-> filter,
                         page |-> page, page_size |-> page_size],
                page_size |-> Min(page_size, max_page_size),
                page |-> Max(page, 1),
                total |-> list_total(tenant_id, filter)])
    /\ UNCHANGED <<db, now, issued, outbox, current_user, members, logged>>

\* lines 173-190: run the query with OFFSET and LIMIT, compute pages, return.
\* The store refuses a negative LIMIT or OFFSET, and Python a division by 0.
list_items(p) ==
    /\ call[p].pc = "list_items"
    /\ LET c == call[p]
           offset == (c.page - 1) * c.page_size
       IN  IF c.page_size < 0 \/ offset < 0
           THEN Finish(p, Raised("list", c.arg, "DBAPIError",
                                 <<"LIMIT must not be negative">>))
           ELSE \E o \in Ordered(list_query(c.arg.tenant_id, c.arg.filter)) :
                   IF c.total > 0 /\ c.page_size = 0
                   THEN Finish(p, Raised("list", c.arg, "ZeroDivisionError",
                                         <<"integer division or modulo by zero">>))
                   ELSE Finish(p, InvitationList(c.arg, Slice(o, offset, c.page_size),
                            c.total, c.page, c.page_size,
                            IF c.total > 0
                            THEN FloorDiv(c.total + c.page_size - 1, c.page_size)
                            ELSE 0))
    /\ UNCHANGED <<db, now, issued, ops, outbox, current_user, members, logged>>

\* ------------------------------------------------------------ get_stats
\* lines 416-429: read the clock, count the rows of the tenant
stats_total(p, tenant_id) ==
    /\ Begin(p)
    /\ Goto(p, [pc |-> "stats_status", tenant_id |-> tenant_id,
                today_start |-> now, week_start |-> now - weekday(now),
                total |-> Cardinality(stats_base(tenant_id))])
    /\ UNCHANGED <<db, now, issued, outbox, current_user, members, logged>>

\* lines 432-437: the count of each status
stats_status(p) ==
    /\ call[p].pc = "stats_status"
    /\ Goto(p, [pc |-> "stats_today", tenant_id |-> call[p].tenant_id,
                today_start |-> call[p].today_start, week_start |-> call[p].week_start,
                total |-> call[p].total,
                status_counts |->
                    [st \in {"PENDING", "ACCEPTED", "EXPIRED", "REVOKED"} |->
                        Cardinality({i \in stats_base(call[p].tenant_id) :
                                        db[i].status = st})]])
    /\ UNCHANGED <<db, now, issued, ops, outbox, current_user, members, logged>>

\* lines 440-445: the rows created since the start of the day
stats_today(p) ==
    /\ call[p].pc = "stats_today"
    /\ Goto(p, [pc |-> "stats_week", tenant_id |-> call[p].tenant_id,
                week_start |-> call[p].week_start, total |-> call[p].total,
                status_counts |-> call[p].status_counts,
                sent_today |-> Cardinality({i \in stats_base(call[p].tenant_id) :
                                    db[i].created_at >= call[p].today_start})])
    /\ UNCHANGED <<db, now, issued, ops, outbox, current_user, members, logged>>

\* lines 448-463: the rows created since the start of the week; return
stats_week(p) ==
    /\ call[p].pc = "stats_week"
    /\ Finish(p, [op |-> "get_stats", arg |-> call[p].tenant_id, kind |-> "ok",
                  total |-> call[p].total,
                  pending |-> call[p].status_counts["PENDING"],
                  accepted |-> call[p].status_counts["ACCEPTED"],
                  expired |-> call[p].status_counts["EXPIRED"],
                  revoked |-> call[p].status_counts["REVOKED"],
                  sent_today |-> call[p].sent_today,
                  sent_this_week |->
                      Cardinality({i \in stats_base(call[p].tenant_id) :
                                      db[i].created_at >= call[p].week_start})])
    /\ UNCHANGED <<db, now, issued, ops, outbox, current_user, members, logged>>

\* ------------------------------------------------------------ the caller
\* routers/invitations.py: ValueError becomes 400 Bad Request; any other
\* exception leaves the route uncaught, 500 Internal Server Error
http_status(r) ==
    CASE r.kind = "ok" /\ r.op = "create" -> 201
      [] r.kind = "ok" -> 200
      [] r.kind = "ValueError" -> 400
      [] OTHER -> 500

\* routers/invitations.py, create_invitation lines 148-154 and resend_invitation:
\* after create or resend has returned, the route has the service send the e-mail
\* with the accept link, which carries the raw token.  The provider accepts the
\* message; when it fails, send_invitation_email logs, returns False, and nothing
\* changes.
send_invitation_email(p) ==
    /\ call[p].pc = "idle"
    /\ res[p].op \in {"create", "resend"}
    /\ res[p].kind = "ok"
    /\ outbox' = outbox \cup {[to |-> db[res[p].id].email, token |-> res[p].token]}
    /\ UNCHANGED <<db, now, issued, call, res, ops, current_user, members, logged>>

\* a route that takes the invitation back when its e-mail could not be sent
send_invitation_email_fails_Undo(p) ==
    /\ call[p].pc = "idle"
    /\ res[p].op \in {"create", "resend"}
    /\ res[p].kind = "ok"
    /\ logged' = logged \cup {[to |-> db[res[p].id].email, token |-> res[p].token]}
    /\ db' = [db EXCEPT ![res[p].id].status = "REVOKED"]
    /\ UNCHANGED <<now, issued, call, res, ops, outbox, current_user, members>>

\* send_invitation_email lines 402-412, when the provider reports a failure or
\* raises: the error is logged, the method returns False, and the route, which
\* does not look at the value, answers as after a sent e-mail
send_invitation_email_fails(p) ==
    /\ call[p].pc = "idle"
    /\ res[p].op \in {"create", "resend"}
    /\ res[p].kind = "ok"
    /\ logged' = logged \cup {[to |-> db[res[p].id].email, token |-> res[p].token]}
    /\ UNCHANGED <<db, now, issued, call, res, ops, outbox, current_user, members>>

\* what the membership service is called with
membership_InviterAsUser(user_id, id, row) ==
    [user_id |-> row.invited_by, invitation |-> id, tenant_id |-> row.tenant_id,
     client_ids |-> row.client_ids, role_group_ids |-> row.role_group_ids]

\* routers/invitations.py, accept_invitation lines 336-359: the arguments of
\* add_user_to_tenant, add_user_to_client and assign_role_group_to_user, for the
\* invitation accept has returned
membership(user_id, id, row) ==
    [user_id |-> user_id, invitation |-> id, tenant_id |-> row.tenant_id,
     client_ids |-> row.client_ids, role_group_ids |-> row.role_group_ids]

\* accept_invitation lines 330-364: after accept has returned the invitation, the
\* route has the membership service add the user to the tenant, to the clients
\* and to the role groups of the invitation, and answers
add_user_to_tenant(p) ==
    /\ call[p].pc = "idle"
    /\ res[p].op = "accept"
    /\ res[p].kind = "ok"
    /\ current_user[p] # None
    /\ members' = Append(members, membership(current_user[p][1], res[p].id, db[res[p].id]))
    /\ current_user' = [current_user EXCEPT ![p] = None]
    /\ UNCHANGED <<db, now, issued, call, res, ops, outbox, logged>>

\* accept_invitation lines 366-367: the membership module is not installed
\* (ImportError), the route answers without it
accept_without_mentor(p) ==
    /\ call[p].pc = "idle"
    /\ res[p].op = "accept"
    /\ res[p].kind = "ok"
    /\ current_user[p] # None
    /\ current_user' = [current_user EXCEPT ![p] = None]
    /\ UNCHANGED <<db, now, issued, call, res, ops, outbox, members, logged>>

\* ------------------------------------------------------------ environment
\* deleted_at: a row is soft-deleted, from outside the service
SoftDelete(i) ==
    /\ db[i].deleted_at = None
    /\ ops < MaxOps
    /\ ops' = ops + 1
    /\ db' = [db EXCEPT ![i].deleted_at = Some(now)]
    /\ UNCHANGED <<now, issued, call, res, outbox, current_user, members, logged>>

\* datetime.now(timezone.utc) moves on.  The service reads the clock only to
\* compare it with a row's expires_at and to stamp a row, so time is followed from
\* one expiry to the next: to the last day a row is still valid (expires_at), or to
\* the day after it.
Instants == {db[i].expires_at + d : i \in Ids, d \in {0, 1}}

Tick(t) ==
    /\ t > now
    /\ t <= MaxTime
    /\ now' = t
    /\ UNCHANGED <<db, issued, call, res, ops, outbox, current_user, members, logged>>

\* ------------------------------------------------------------ specifications
Init ==
    /\ db = <<>>
    /\ now = 0
    /\ issued = 0
    /\ call = [p \in Procs |-> Idle]
    /\ res = [p \in Procs |-> NoResult]
    /\ ops = 0
    /\ outbox = {}
    /\ current_user = [p \in Procs |-> None]
    /\ members = <<>>
    /\ logged = {}

Next ==
    \/ \E p \in Procs, req \in CreateRequests, c \in Callers : create_check(p, req, c)
    \/ \E p \in Procs : create_insert(p)
    \/ \E p \in Procs, t \in RawTokens, c \in Callers : accept_read(p, t, c)
    \/ \E p \in Procs : accept_check(p)
    \/ \E p \in Procs : accept_expire(p)
    \/ \E p \in Procs : accept_commit(p)
    \/ \E p \in Procs, i \in 1..MaxRows, c \in Callers : revoke_read(p, i, c)
    \/ \E p \in Procs : revoke_commit(p)
    \/ \E p \in Procs, i \in 1..MaxRows, c \in Callers : resend_read(p, i, c)
    \/ \E p \in Procs : resend_commit(p)
    \/ \E p \in Procs : expire_select(p)
    \/ \E p \in Procs : expire_commit(p)
    \/ \E i \in Ids : SoftDelete(i)
    \/ \E t \in Instants : Tick(t)

Spec == Init /\ [][Next]_vars

\* the calls of the service one after another: a single request at a time
SeqNext ==
    \/ \E req \in CreateRequests, c \in Callers : create_check(1, req, c)
    \/ create_insert(1)
    \/ \E t \in RawTokens, c \in Callers : accept_read(1, t, c)
    \/ accept_check(1)
    \/ accept_expire(1)
    \/ accept_commit(1)
    \/ \E i \in 1..MaxRows, c \in Callers : revoke_read(1, i, c)
    \/ revoke_commit(1)
    \/ \E i \in 1..MaxRows, c \in Callers : resend_read(1, i, c)
    \/ resend_commit(1)
    \/ expire_select(1)
    \/ expire_commit(1)
    \/ \E t \in Instants : Tick(t)

SeqSpec == Init /\ [][SeqNext]_vars

\* the same, with rows soft-deleted between the calls
SeqDelNext ==
    \/ SeqNext
    \/ \E i \in Ids : call[1].pc = "idle" /\ SoftDelete(i)

SeqDelSpec == Init /\ [][SeqDelNext]_vars

\* the calls one after another, as the accept route makes them: with the
\* membership service called after an accept
AcceptNext ==
    \/ SeqNext
    \/ add_user_to_tenant(1)
    \/ accept_without_mentor(1)

AcceptSpec == Init /\ [][AcceptNext]_vars

\* the requests of process 1 (create, resend, revoke, accept), soft deletes and
\* the clock, with the sweep run by a scheduler as process 2, again and again:
\* a sweep that can run does run, and a sweep that has selected rows commits
LiveNext ==
    \/ \E req \in CreateRequests, c \in Callers : create_check(1, req, c)
    \/ create_insert(1)
    \/ \E t \in RawTokens, c \in Callers : accept_read(1, t, c)
    \/ accept_check(1)
    \/ accept_expire(1)
    \/ accept_commit(1)
    \/ \E i \in 1..MaxRows, c \in Callers : revoke_read(1, i, c)
    \/ revoke_commit(1)
    \/ \E i \in 1..MaxRows, c \in Callers : resend_read(1, i, c)
    \/ resend_commit(1)
    \/ scheduled_select(2)
    \/ expire_commit(2)
    \/ \E i \in Ids : SoftDelete(i)
    \/ \E t \in Instants : Tick(t)

LiveSpec ==
    /\ Init
    /\ [][LiveNext]_vars
    /\ WF_vars(scheduled_select(2))
    /\ WF_vars(expire_commit(2))

\* the calls one after another, over a store whose commits may fail
FailNext ==
    \/ SeqNext
    \/ commit_fails(1)

FailSpec == Init /\ [][FailNext]_vars

\* the calls one after another, as the routes make them: with the e-mail sent
\* after a create or a resend
RouteNext ==
    \/ SeqNext
    \/ send_invitation_email(1)

RouteSpec == Init /\ [][RouteNext]_vars

\* the same, with an e-mail provider that may fail
NotifyNext ==
    \/ RouteNext
    \/ send_invitation_email_fails(1)

NotifySpec == Init /\ [][NotifyNext]_vars

\* the calls one after another, when secrets.token_urlsafe may return a token it
\* has returned before: a create or a resend gets any of the tokens
CollideNext ==
    \/ \E req \in CreateRequests, c \in Callers : create_check(1, req, c)
    \/ \E t \in RawTokens : create_insert_token(1, t)
    \/ \E t \in RawTokens, c \in Callers : accept_read(1, t, c)
    \/ accept_check(1)
    \/ accept_expire(1)
    \/ accept_commit(1)
    \/ \E i \in 1..MaxRows, c \in Callers : revoke_read(1, i, c)
    \/ revoke_commit(1)
    \/ \E i \in 1..MaxRows, c \in Callers : resend_read(1, i, c)
    \/ \E t \in RawTokens : resend_commit_token(1, t)
    \/ expire_select(1)
    \/ expire_commit(1)
    \/ \E i \in Ids : call[1].pc = "idle" /\ SoftDelete(i)
    \/ \E t \in Instants : Tick(t)

CollideSpec == Init /\ [][CollideNext]_vars

\* list with every page and page_size, among the calls that fill the table, one
\* call after another
ListNext ==
    \/ \E req \in MoreRequests, c \in Callers : create_check(1, req, c)
    \/ create_insert(1)
    \/ \E c \in Callers, page \in PageArgs, page_size \in PageSizeArgs :
            list_count(1, c.tenant, NoFilter, page, page_size)
    \/ list_items(1)
    \/ \E i \in Ids : call[1].pc = "idle" /\ SoftDelete(i)
    \/ \E t \in Instants : Tick(t)

ListSpec == Init /\ [][ListNext]_vars

\* list with every filter, among the calls that fill the table and change the
\* status of its rows, one call after another
FilterNext ==
    \/ \E req \in MoreRequests, c \in Callers : create_check(1, req, c)
    \/ create_insert(1)
    \/ \E i \in 1..MaxRows, c \in Callers : revoke_read(1, i, c)
    \/ revoke_commit(1)
    \/ expire_select(1)
    \/ expire_commit(1)
    \/ \E c \in Callers, f \in Filters : list_count(1, c.tenant, f, 1, max_page_size)
    \/ list_items(1)
    \/ \E i \in Ids : call[1].pc = "idle" /\ SoftDelete(i)
    \/ \E t \in Instants : Tick(t)

FilterSpec == Init /\ [][FilterNext]_vars

\* two requests that list the pages of a tenant, while invitations are created
PageNext ==
    \/ \E p \in Procs, req \in MoreRequests : create_check(p, req, [user |-> "u1", tenant |-> "T1"])
    \/ \E p \in Procs : create_insert(p)
    \/ \E p \in Procs, page \in {1, 2}, page_size \in {1, 2} :
            list_count(p, "T1", NoFilter, page, page_size)
    \/ \E p \in Procs : list_items(p)
    \/ \E t \in Instants : Tick(t)

PageSpec == Init /\ [][PageNext]_vars

\* a request for the statistics of a tenant, while another request after the
\* other creates and revokes invitations and rows are soft-deleted
StatsNext ==
    \/ \E c \in Callers : stats_total(1, c.tenant)
    \/ stats_status(1)
    \/ stats_today(1)
    \/ stats_week(1)
    \/ \E req \in MoreRequests, c \in Callers : create_check(2, req, c)
    \/ create_insert(2)
    \/ \E i \in 1..MaxRows, c \in Callers : revoke_read(2, i, c)
    \/ revoke_commit(2)
    \/ \E i \in Ids : SoftDelete(i)
    \/ \E t \in Instants : Tick(t)

StatsSpec == Init /\ [][StatsNext]_vars

\* ------------------------------------------------------------ claims
Terminal == {"ACCEPTED", "EXPIRED", "REVOKED"}

\* C1: in a sequence of calls of the service, the status of a row changes only
\* from PENDING to ACCEPTED, EXPIRED or REVOKED: a row that is ACCEPTED, EXPIRED
\* or REVOKED keeps its status, and no step sets a status back to PENDING.
C1_StatusOneWay ==
    [][\A i \in Ids :
          db'[i].status # db[i].status
              => (db[i].status = "PENDING" /\ db'[i].status \in Terminal)]_vars

\* a row is ACCEPTED and a revoke of it has been refused
C1_Witness ==
    \E i \in Ids :
        /\ db[i].status = "ACCEPTED"
        /\ res[1] = Raised("revoke", i, "ValueError",
                           <<"Cannot revoke", "accepted", "invitation">>)

\* C2: in every state of the table, at most one invitation per (tenant_id,
\* lowercased email) is PENDING and not soft-deleted, also when two creates
\* interleave between their pre-check and their insert.
C2_OnePendingPerEmail ==
    \A i, j \in Ids :
        (/\ i # j
         /\ db[i].status = "PENDING" /\ db[i].deleted_at = None
         /\ db[j].status = "PENDING" /\ db[j].deleted_at = None)
            => ~(/\ db[i].tenant_id = db[j].tenant_id
                 /\ lower(db[i].email) = lower(db[j].email))

\* two creates for one tenant and e-mail both passed the pre-check, and the insert
\* of the second was refused by the store
C2_Witness ==
    \E p \in Procs :
        /\ res[p].op = "create"
        /\ res[p].kind = "IntegrityError"
        /\ \E i \in Ids : db[i].status = "PENDING" /\ db[i].email = lower(res[p].arg)

\* C3: two concurrent accepts of one raw token cannot both succeed: at most one
\* of them returns the ACCEPTED invitation.
C3_OneAcceptPerToken ==
    \A p, q \in Procs :
        (/\ p # q
         /\ res[p].op = "accept" /\ res[p].kind = "ok"
         /\ res[q].op = "accept" /\ res[q].kind = "ok")
            => res[p].arg # res[q].arg

\* the failures of the service, as the caller tells them apart
Conflict(email) ==
    Raised("create", email, "ValueError", <<"Pending invitation already exists for", email>>)
NotFound(op, arg) ==
    Raised(op, arg, "ValueError",
           IF op = "accept" THEN <<"Invalid invitation token">> ELSE <<"Invitation not found">>)
InvalidState(op, arg, status) ==
    Raised(op, arg, "ValueError",
           CASE op = "accept" -> <<"Invitation is", status>>
             [] op = "revoke" -> <<"Cannot revoke", status, "invitation">>
             [] op = "resend" -> <<"Cannot resend", status, "invitation">>)
Expired(token) == Raised("accept", token, "ValueError", <<"Invitation has expired">>)

\* the invitations that are PENDING and not soft-deleted, of a tenant and an e-mail
\* in any letter case
PendingFor(tenant, email) ==
    {i \in Ids : /\ db[i].tenant_id = tenant
                 /\ lower(db[i].email) = lower(email)
                 /\ db[i].status = "PENDING"
                 /\ db[i].deleted_at = None}

\* C4: a create for a tenant and an e-mail (in any letter case) that already have
\* a PENDING invitation that is not soft-deleted fails with Conflict, inserts no
\* row and changes no row: of the two creates exactly the first succeeds.
C4_SecondCreateConflicts ==
    [][\A req \in CreateRequests, c \in Callers :
          (create_check(1, req, c) /\ PendingFor(c.tenant, req.email) # {})
              => (res'[1] = Conflict(req.email) /\ db' = db)]_vars

\* a create with "A@x.com" was refused while the invitation of "a@x.com" is PENDING
C4_Witness ==
    /\ res[1] = Conflict("A@x.com")
    /\ \E i \in Ids : /\ db[i].email = "a@x.com"
                      /\ db[i].status = "PENDING"
                      /\ db[i].deleted_at = None

\* C5: a create whose insert is refused by the uniqueness constraint fails with
\* the same Conflict as a failed pre-check, which the route answers like it (400).
C5_InsertConflictIsConflict ==
    \A p \in Procs :
        (res[p].op = "create" /\ res[p].kind # "ok")
            => (res[p] = Conflict(res[p].arg) /\ http_status(res[p]) = 400)

\* C6: on an invitation that is ACCEPTED, EXPIRED or REVOKED, accept with its
\* token and revoke and resend with its id and tenant each fail with InvalidState
\* and leave every row as it was.
C6_TerminalRefused ==
    [][\A i \in Ids :
          db[i].status \in Terminal =>
              /\ \A t \in RawTokens, c \in Callers :
                    (accept_read(1, t, c) /\ db[i].token_hash = hash_token(t))
                        => (call'[1].pc = "accept_check" /\ call'[1].inv.id = i /\ db' = db)
              /\ (accept_check(1) /\ call[1].inv.id = i)
                    => (/\ res'[1] = InvalidState("accept", call[1].token, lower(db[i].status))
                        /\ db' = db)
              /\ \A c \in Callers :
                    (revoke_read(1, i, c) /\ c.tenant = db[i].tenant_id)
                        => (/\ res'[1] = InvalidState("revoke", i, lower(db[i].status))
                            /\ db' = db)
              /\ \A c \in Callers :
                    (resend_read(1, i, c) /\ c.tenant = db[i].tenant_id)
                        => (/\ res'[1] = InvalidState("resend", i, lower(db[i].status))
                            /\ db' = db)]_vars

\* a resend of an EXPIRED invitation has been refused
C6_Witness ==
    \E i \in Ids :
        /\ db[i].status = "EXPIRED"
        /\ res[1] = InvalidState("resend", i, "expired")

\* C7, as claimed: an accept of a token whose invitation has expires_at in the
\* past leaves the invitation EXPIRED and reports Expired.
C7_PastExpiryAlwaysExpires ==
    [][\A p \in Procs :
          /\ (accept_check(p) /\ db[call[p].inv.id].expires_at < now)
                => call'[p].pc = "accept_expire"
          /\ accept_expire(p)
                => (/\ db'[call[p].inv.id].status = "EXPIRED"
                    /\ res'[p] = Expired(call[p].token))]_vars

\* C7, amended: an accept of a token whose invitation is PENDING, not soft-deleted
\* and has expires_at in the past leaves the invitation EXPIRED and reports Expired.
C7_PendingPastExpiryExpires ==
    [][\A p \in Procs :
          /\ \A t \in RawTokens, c \in Callers, i \in Ids :
                (/\ accept_read(p, t, c)
                 /\ db[i].token_hash = hash_token(t)
                 /\ db[i].deleted_at = None)
                    => (call'[p].pc = "accept_check" /\ call'[p].inv = Loaded(i))
          /\ (/\ accept_check(p)
              /\ db[call[p].inv.id].status = "PENDING"
              /\ db[call[p].inv.id].expires_at < now)
                => call'[p].pc = "accept_expire"
          /\ accept_expire(p)
                => (/\ db'[call[p].inv.id].status = "EXPIRED"
                    /\ res'[p] = Expired(call[p].token))]_vars

\* an accept after the expiry has been refused as expired, and the row is EXPIRED
C7_Witness ==
    \E p \in Procs, i \in Ids :
        /\ res[p].op = "accept"
        /\ res[p] = Expired(res[p].arg)
        /\ db[i].token_hash = hash_token(res[p].arg)
        /\ db[i].status = "EXPIRED"
        /\ db[i].expires_at < now

\* a token that was generated and is the token of no row any more
Superseded(t) ==
    /\ t[2] <= issued
    /\ \A i \in Ids : db[i].token_hash # hash_token(t)

\* C8: after a resend, an accept with the token that was valid before it fails
\* with NotFound and changes nothing, from then on; an accept with the token the
\* resend returned, before the new expiry, succeeds.
C8_ResendInvalidatesOldToken ==
    [][/\ resend_commit(1)
            => LET i == call[1].inv.id
               IN  /\ res'[1] = Returned("resend", i, i, generate_token)
                   /\ db'[i].token_hash = hash_token(generate_token)
                   /\ db'[i].expires_at = now + invitation_expiry_days
                   /\ db'[i].status = "PENDING"
                   /\ \A t \in RawTokens :
                         db[i].token_hash = hash_token(t) => Superseded(t)'
       /\ \A t \in RawTokens :
            /\ Superseded(t) => Superseded(t)'
            /\ \A c \in Callers :
                  (accept_read(1, t, c) /\ Superseded(t))
                      => (res'[1] = NotFound("accept", t) /\ db' = db)
            /\ \A c \in Callers, i \in Ids :
                  (accept_read(1, t, c) /\ db[i].token_hash = hash_token(t))
                      => (call'[1].pc = "accept_check" /\ call'[1].inv = Loaded(i))
       /\ (/\ accept_check(1)
           /\ db[call[1].inv.id].status = "PENDING"
           /\ db[call[1].inv.id].expires_at >= now)
            => call'[1].pc = "accept_commit"
       /\ accept_commit(1)
            => (/\ res'[1] = Returned("accept", call[1].token, call[1].inv.id, None)
                /\ db'[call[1].inv.id].status = "ACCEPTED")]_vars

\* an accept with the first token of an invitation was answered NotFound after a
\* resend had given the invitation its second token
C8_Witness ==
    /\ Len(db) = 1
    /\ db[1].token_hash = hash_token(<<"token", 2>>)
    /\ res[1] = NotFound("accept", <<"token", 1>>)

\* the columns that hold a text, a list or a digest
TextColumns == {"name", "message", "client_ids", "role_group_ids", "token_hash"}

\* C9: the token_hash a successful create or resend stores is the hash of the raw
\* token the call returns, and no column of a row holds a raw token.
C9_OnlyHashesStored ==
    [][/\ \A p \in Procs :
            /\ (create_insert(p) /\ res'[p].kind = "ok")
                  => db'[res'[p].id].token_hash = <<"sha256", res'[p].token[2]>>
            /\ (resend_commit(p) /\ res'[p].kind = "ok")
                  => db'[res'[p].id].token_hash = <<"sha256", res'[p].token[2]>>
       /\ \A i \in 1..Len(db'), f \in TextColumns : db'[i][f] \notin RawTokens]_vars

\* a resend has returned a raw token, and the row holds its hash
C9_Witness ==
    \E p \in Procs :
        /\ res[p].op = "resend"
        /\ res[p].kind = "ok"
        /\ db[res[p].id].token_hash = <<"sha256", res[p].token[2]>>

\* C10: once an accept with a token has succeeded, a later accept with the same
\* token fails with InvalidState, "accepted", and leaves the row as it was; the
\* first accept succeeds whatever the tenant of its caller.
C10_TokenSingleUse ==
    [][/\ \A t \in RawTokens, c \in Callers, i \in Ids :
            (accept_read(1, t, c) /\ db[i].token_hash = hash_token(t))
                => (call'[1].pc = "accept_check" /\ call'[1].inv = Loaded(i))
       /\ (/\ accept_check(1)
           /\ db[call[1].inv.id].status = "PENDING"
           /\ db[call[1].inv.id].expires_at >= now)
            => call'[1].pc = "accept_commit"
       /\ accept_commit(1)
            => (/\ res'[1] = Returned("accept", call[1].token, call[1].inv.id, None)
                /\ db'[call[1].inv.id].status = "ACCEPTED"
                /\ db'[call[1].inv.id].token_hash = hash_token(call[1].token))
       /\ \A i \in Ids :
            db[i].status = "ACCEPTED"
                => (db'[i].status = "ACCEPTED" /\ db'[i].token_hash = db[i].token_hash)
       /\ (accept_check(1) /\ db[call[1].inv.id].status = "ACCEPTED")
            => (/\ res'[1] = Raised("accept", call[1].token, "ValueError",
                                    <<"Invitation is", "accepted">>)
                /\ db' = db)]_vars

\* a second accept with the token of an ACCEPTED invitation has been refused
C10_Witness ==
    \E i \in Ids, t \in RawTokens :
        /\ db[i].status = "ACCEPTED"
        /\ db[i].token_hash = hash_token(t)
        /\ res[1] = Raised("accept", t, "ValueError", <<"Invitation is", "accepted">>)

\* C11: in a sequence of calls, accept with a token whose hash is that of a
\* non-deleted PENDING row with expires_at >= now (the day of expiry included)
\* sets status to ACCEPTED and accepted_at to now on that row, changes nothing
\* else and returns the invitation; accept with a token that is the token of no
\* non-deleted row fails with NotFound and changes nothing.
C11_AcceptEffect ==
    [][/\ \A t \in RawTokens, c \in Callers :
            /\ \A i \in Ids :
                  (/\ accept_read(1, t, c)
                   /\ db[i].token_hash = <<"sha256", t[2]>>
                   /\ db[i].deleted_at = None)
                      => (/\ call'[1].pc = "accept_check"
                          /\ call'[1].inv = [id |-> i, row |-> db[i]]
                          /\ call'[1].token = t
                          /\ db' = db)
            /\ (/\ accept_read(1, t, c)
                /\ \A i \in Ids : db[i].token_hash = <<"sha256", t[2]>>
                                      => db[i].deleted_at # None)
                  => (res'[1] = NotFound("accept", t) /\ db' = db)
       /\ (/\ accept_check(1)
           /\ db[call[1].inv.id].status = "PENDING"
           /\ db[call[1].inv.id].expires_at >= now)
            => (call'[1].pc = "accept_commit" /\ db' = db)
       /\ accept_commit(1)
            => LET i == call[1].inv.id
               IN  /\ db' = [db EXCEPT ![i].status = "ACCEPTED",
                                       ![i].accepted_at = <<now>>]
                   /\ res'[1] = Returned("accept", call[1].token, i, None)]_vars

\* an accept on the day of expiry has succeeded
C11_Witness ==
    \E i \in Ids :
        /\ res[1].op = "accept"
        /\ res[1].kind = "ok"
        /\ res[1].id = i
        /\ db[i].status = "ACCEPTED"
        /\ db[i].accepted_at = <<db[i].expires_at>>

\* C12: in a sequence of calls, revoke(id, tenant_id, revoked_by) on a non-deleted
\* PENDING invitation of that tenant sets status = REVOKED, revoked_at = now and
\* revoked_by = revoked_by on that row and changes nothing else; the row then
\* stays REVOKED with its token, and an accept with that token fails with
\* InvalidState and changes nothing.
C12_RevokeEffect ==
    [][/\ \A i \in Ids, c \in Callers :
            (/\ revoke_read(1, i, c)
             /\ db[i].tenant_id = c.tenant
             /\ db[i].deleted_at = None
             /\ db[i].status = "PENDING")
                => (/\ call'[1].pc = "revoke_commit"
                    /\ call'[1].inv = [id |-> i, row |-> db[i]]
                    /\ call'[1].caller = c
                    /\ db' = db)
       /\ revoke_commit(1)
            => LET i == call[1].inv.id
               IN  /\ db' = [db EXCEPT ![i].status = "REVOKED",
                                       ![i].revoked_at = <<now>>,
                                       ![i].revoked_by = <<call[1].caller.user>>]
                   /\ res'[1] = Returned("revoke", i, i, None)
       /\ \A i \in Ids :
            db[i].status = "REVOKED"
                => (db'[i].status = "REVOKED" /\ db'[i].token_hash = db[i].token_hash)
       /\ \A t \in RawTokens, c \in Callers, i \in Ids :
            (/\ accept_read(1, t, c)
             /\ db[i].token_hash = hash_token(t)
             /\ db[i].deleted_at = None)
                => (call'[1].pc = "accept_check" /\ call'[1].inv = Loaded(i))
       /\ (accept_check(1) /\ db[call[1].inv.id].status = "REVOKED")
            => (/\ res'[1] = InvalidState("accept", call[1].token, "revoked")
                /\ db' = db)]_vars

\* an invitation was revoked by u1 and an accept with its token was then refused
C12_Witness ==
    \E i \in Ids, t \in RawTokens :
        /\ db[i].status = "REVOKED"
        /\ db[i].revoked_by = <<"u1">>
        /\ db[i].revoked_at # None
        /\ db[i].accepted_at = None
        /\ db[i].token_hash = hash_token(t)
        /\ res[1] = InvalidState("accept", t, "revoked")

\* the invitation of that id is missing, soft-deleted or of another tenant
OutOfScope(i, tenant) ==
    \/ i \notin Ids
    \/ db[i].tenant_id # tenant
    \/ db[i].deleted_at # None

\* C13: in a sequence of calls, resend(id, tenant_id) on a non-deleted PENDING
\* invitation of that tenant overwrites token_hash on that row with the hash of a
\* new token, sets expires_at = now + TTL, leaves status PENDING, changes nothing
\* else and neither adds nor removes a row; it fails with NotFound and with
\* InvalidState under the conditions under which revoke does.
C13_ResendEffect ==
    [][/\ \A i \in 1..MaxRows, c \in Callers :
            /\ resend_read(1, i, c)
                  => /\ db' = db
                     /\ IF OutOfScope(i, c.tenant)
                        THEN res'[1] = NotFound("resend", i)
                        ELSE IF db[i].status # "PENDING"
                             THEN res'[1] = Raised("resend", i, "ValueError",
                                       <<"Cannot resend", lower(db[i].status), "invitation">>)
                             ELSE /\ call'[1].pc = "resend_commit"
                                  /\ call'[1].inv = [id |-> i, row |-> db[i]]
            /\ revoke_read(1, i, c)
                  => /\ db' = db
                     /\ IF OutOfScope(i, c.tenant)
                        THEN res'[1] = NotFound("revoke", i)
                        ELSE IF db[i].status # "PENDING"
                             THEN res'[1] = Raised("revoke", i, "ValueError",
                                       <<"Cannot revoke", lower(db[i].status), "invitation">>)
                             ELSE call'[1].pc = "revoke_commit"
       /\ resend_commit(1)
            => LET i == call[1].inv.id
               IN  /\ db' = [db EXCEPT ![i].token_hash = <<"sha256", issued + 1>>,
                                       ![i].expires_at = now + invitation_expiry_days]
                   /\ db'[i].token_hash # db[i].token_hash
                   /\ db'[i].status = "PENDING"
                   /\ Len(db') = Len(db)
                   /\ res'[1] = Returned("resend", i, i, <<"token", issued + 1>>)]_vars

\* a resend some days after the create has given the row a new token and a later
\* expiry, and there is still one row
C13_Witness ==
    /\ res[1].op = "resend"
    /\ res[1].kind = "ok"
    /\ Len(db) = 1
    /\ db[1].status = "PENDING"
    /\ db[1].token_hash = <<"sha256", 2>>
    /\ db[1].expires_at > db[1].created_at + invitation_expiry_days

\* the ids of the rows a sweep has selected
Selected(p) == {inv.id : inv \in call[p].invitations}

\* C14: expire_old_invitations, with no other call running, sets to EXPIRED the
\* invitations, of every tenant, that are PENDING, not soft-deleted and have
\* expires_at < now, and only those; it returns the number of rows it changed and
\* leaves every other row and every other column as it was.
C14_SweepEffect ==
    [][/\ expire_select(1)
            => LET due == {i \in Ids : /\ db[i].status = "PENDING"
                                       /\ db[i].deleted_at = None
                                       /\ db[i].expires_at < now}
               IN  /\ db' = db
                   /\ IF due = {}
                      THEN res'[1] = Returned("expire_old_invitations", None, 0, None)
                      ELSE /\ call'[1].pc = "expire_commit"
                           /\ call'[1].invitations = {[id |-> i, row |-> db[i]] : i \in due}
       /\ call[1].pc = "expire_commit"
            => \A inv \in call[1].invitations : db[inv.id] = inv.row
       /\ expire_commit(1)
            => /\ db' = [i \in Ids |-> IF i \in Selected(1)
                                       THEN [db[i] EXCEPT !.status = "EXPIRED"]
                                       ELSE db[i]]
               /\ res'[1] = Returned("expire_old_invitations", None,
                                     Cardinality({i \in Ids : db'[i] # db[i]}), None)]_vars

\* one sweep has expired two invitations, of two tenants
C14_Witness ==
    /\ res[1] = Returned("expire_old_invitations", None, 2, None)
    /\ Len(db) = 2
    /\ db[1].tenant_id # db[2].tenant_id
    /\ db[1].status = "EXPIRED"
    /\ db[2].status = "EXPIRED"

\* C15: when the sweep runs concurrently with accept, revoke or resend, its write
\* changes to EXPIRED only rows that are PENDING and past their expiry when the
\* write takes effect: it does not overwrite a status committed meanwhile, and it
\* does not expire a row whose expiry a resend has moved into the future.
C15_SweepWritesOnlyPendingExpired ==
    [][\A p \in Procs :
          expire_commit(p)
              => \A i \in Ids :
                    db'[i] # db[i]
                        => (db[i].status = "PENDING" /\ db[i].expires_at < now)]_vars

\* the row request p loaded has since been resent: its token is another one
Resent(p) == db[call[p].inv.id].token_hash # call[p].inv.row.token_hash

\* C16: accept, revoke and resend are each one atomic read-validate-write: of an
\* accept and a revoke, an accept and a resend, or a revoke and a resend that run
\* concurrently on one PENDING invitation at most one succeeds, and the later
\* writer fails without overwriting what the earlier one committed.
C16_LaterWriterFails ==
    [][\A p \in Procs :
          LET committed == db[call[p].inv.id].status
          IN  (\/ accept_commit(p) /\ (committed = "REVOKED" \/ Resent(p))
               \/ revoke_commit(p) /\ (committed = "ACCEPTED" \/ Resent(p))
               \/ resend_commit(p) /\ committed \in {"ACCEPTED", "REVOKED"})
                  => (/\ res'[p].kind # "ok"
                      /\ db' = db)]_vars

\* the soft-deleted rows
Deleted == {i \in Ids : db[i].deleted_at # None}

\* no query of the service returns or counts the soft-deleted rows
Hidden ==
    /\ \A i \in Deleted :
          /\ \A c \in Callers : i \notin get(i, c.tenant)
          /\ \A t \in RawTokens : i \notin get_by_token(t)
          /\ \A c \in Callers, f \in Filters : i \notin list_query(c.tenant, f)
          /\ \A c \in Callers, req \in CreateRequests :
                i \notin get_pending_by_email(req.email, c.tenant)
          /\ i \notin Expirable
    /\ \A c \in Callers :
          LET visible == {i \in Ids \ Deleted : db[i].tenant_id = c.tenant}
              stats == get_stats(c.tenant)
          IN  /\ list_total(c.tenant, NoFilter) = Cardinality(visible)
              /\ stats.total = Cardinality(visible)
              /\ stats.pending + stats.accepted + stats.expired + stats.revoked
                    = Cardinality(visible)

\* C17: a soft-deleted invitation is invisible to every operation: get and
\* get_by_token do not return it, list and get_stats neither return nor count it,
\* the sweep does not select it, the pre-check of create ignores it, accept, revoke
\* and resend addressed to it fail with NotFound, and no call changes it.
C17_DeletedInvisible ==
    [][/\ Hidden
       /\ Hidden'
       /\ \A i \in Deleted :
            /\ db'[i] = db[i]
            /\ \A c \in Callers :
                  /\ revoke_read(1, i, c) => res'[1] = NotFound("revoke", i)
                  /\ resend_read(1, i, c) => res'[1] = NotFound("resend", i)
                  /\ \A t \in RawTokens :
                        (accept_read(1, t, c) /\ db[i].token_hash = <<"sha256", t[2]>>)
                            => res'[1] = NotFound("accept", t)
       /\ \A c \in Callers, req \in CreateRequests :
            (/\ create_check(1, req, c)
             /\ \A i \in Ids \ Deleted :
                   ~(/\ db[i].tenant_id = c.tenant
                     /\ db[i].email = "a@x.com"
                     /\ db[i].status = "PENDING"))
                => call'[1].pc = "create_insert"
       /\ expire_select(1)
            => (call'[1].pc = "expire_commit"
                    => \A inv \in call'[1].invitations : inv.id \notin Deleted)]_vars

\* a PENDING invitation was soft-deleted, a second one was then created for the
\* same tenant and e-mail, and an accept with the token of the first was answered
\* NotFound
C17_Witness ==
    /\ Len(db) = 2
    /\ db[1].deleted_at # None
    /\ db[1].status = "PENDING"
    /\ db[2].status = "PENDING"
    /\ db[2].tenant_id = db[1].tenant_id
    /\ db[2].email = db[1].email
    /\ db[1].token_hash = <<"sha256", 1>>
    /\ res[1] = NotFound("accept", <<"token", 1>>)

\* no query made for a tenant returns or counts a row of another tenant
Isolated ==
    \A c \in Callers :
        LET others == {i \in Ids : db[i].tenant_id # c.tenant}
            stats == get_stats(c.tenant)
        IN  /\ \A i \in others :
                  /\ get(i, c.tenant) = {}
                  /\ \A f \in Filters : i \notin list_query(c.tenant, f)
            /\ \A f \in Filters : list_total(c.tenant, f) <= Cardinality(Ids \ others)
            /\ stats.total <= Cardinality(Ids \ others)
            /\ stats.sent_today <= Cardinality(Ids \ others)
            /\ stats.sent_this_week <= Cardinality(Ids \ others)
            /\ stats.pending + stats.accepted + stats.expired + stats.revoked
                  <= Cardinality(Ids \ others)

\* C18: tenant isolation: for an invitation of tenant T and a caller of another
\* tenant, get finds nothing, revoke and resend with the id of the invitation
\* fail with NotFound and change nothing, and list and get_stats neither return
\* nor count the invitation.
C18_TenantIsolation ==
    [][/\ Isolated
       /\ Isolated'
       /\ \A i \in Ids, c \in Callers :
            db[i].tenant_id # c.tenant
                => /\ revoke_read(1, i, c)
                        => (res'[1] = NotFound("revoke", i) /\ db' = db)
                   /\ resend_read(1, i, c)
                        => (res'[1] = NotFound("resend", i) /\ db' = db)]_vars

\* the one request that has run created an invitation for tenant T1, and its
\* revoke with that id for another tenant was answered NotFound; the row is as it was
C18_Witness ==
    /\ res[2] = NoResult
    /\ call[2] = Idle
    /\ Len(db) = 1
    /\ db[1].tenant_id = "T1"
    /\ db[1].status = "PENDING"
    /\ db[1].deleted_at = None
    /\ res[1] = NotFound("revoke", 1)

\* C19: no two invitations, of any tenant, in any status, deleted or not, have the
\* same token_hash; a create or a resend whose generated token is the token of
\* another row ends with a failure of the store and no row written.
C19_TokenHashUnique ==
    [][/\ \A i, j \in 1..Len(db') : i # j => db'[i].token_hash # db'[j].token_hash
       /\ \A t \in RawTokens :
            /\ (/\ create_insert_token(1, t)
                /\ \E i \in Ids : db[i].token_hash = <<"sha256", t[2]>>)
                  => (res'[1].kind = "IntegrityError" /\ db' = db)
            /\ (/\ resend_commit_token(1, t)
                /\ \E i \in Ids \ {call[1].inv.id} : db[i].token_hash = <<"sha256", t[2]>>)
                  => (res'[1].kind = "IntegrityError" /\ db' = db)]_vars

\* a resend generated the token of the other row, which is soft-deleted, and the
\* store refused it
C19_Witness ==
    /\ res[1].op = "resend"
    /\ res[1].kind = "IntegrityError"
    /\ Len(db) = 2
    /\ db[1].token_hash # db[2].token_hash
    /\ \E i \in Ids : db[i].deleted_at # None

\* C20: a successful create inserts one row and has no other effect: the new row
\* is PENDING, has the lowercased e-mail, expires_at = now + TTL and accepted_at,
\* revoked_at, revoked_by and deleted_at unset; no existing row changes, and
\* create sends no e-mail.
C20_CreateEffect ==
    [][/\ \A req \in CreateRequests, c \in Callers :
            create_check(1, req, c) => (db' = db /\ outbox' = outbox)
       /\ (create_insert(1) /\ res'[1].kind = "ok")
            => LET req == call[1].req
                   new == db'[Len(db')]
               IN  /\ db' = Append(db, new)
                   /\ res'[1] = Returned("create", req.email, Len(db) + 1,
                                         <<"token", issued + 1>>)
                   /\ new.email = "a@x.com"
                   /\ new.status = "PENDING"
                   /\ new.expires_at = now + invitation_expiry_days
                   /\ new.created_at = now
                   /\ new.accepted_at = <<>>
                   /\ new.revoked_at = <<>>
                   /\ new.revoked_by = <<>>
                   /\ new.deleted_at = <<>>
                   /\ new.tenant_id = call[1].caller.tenant
                   /\ new.invited_by = call[1].caller.user
                   /\ new.name = req.name
                   /\ new.client_ids = req.client_ids
                   /\ new.role_group_ids = req.role_group_ids
                   /\ new.message = req.message
                   /\ new.token_hash = <<"sha256", issued + 1>>
                   /\ outbox' = outbox]_vars

\* a create with the address in capitals has added a second row, with the address
\* lowercased; the e-mail of the first invitation has been sent, none for this one
C20_Witness ==
    /\ res[1].op = "create"
    /\ res[1].kind = "ok"
    /\ res[1].arg = "A@x.com"
    /\ res[1].id = 2
    /\ Len(db) = 2
    /\ db[2].email = "a@x.com"
    /\ db[2].status = "PENDING"
    /\ outbox = {[to |-> "a@x.com", token |-> <<"token", 1>>]}
    /\ res[1].token = <<"token", 2>>

\* the columns no operation of the service writes after the insert
FixedColumns ==
    {"email", "name", "tenant_id", "invited_by", "client_ids", "role_group_ids",
     "message", "created_at"}

\* C21: the table only grows: a row is added by create alone and one at a time, no
\* row is removed, no operation of the service sets deleted_at, and the id, email,
\* tenant_id, invited_by, client_ids, role_group_ids and message of a row never
\* change.
C21_RowsOnlyGrow ==
    [][/\ Len(db') >= Len(db)
       /\ Len(db') # Len(db)
            => (Len(db') = Len(db) + 1 /\ \E p \in Procs : create_insert(p))
       /\ \A i \in Ids :
            /\ \A f \in FixedColumns : db'[i][f] = db[i][f]
            /\ db'[i].deleted_at # db[i].deleted_at => SoftDelete(i)
       /\ \A p \in Procs :
            (accept_commit(p) \/ accept_expire(p) \/ revoke_commit(p)
                \/ resend_commit(p) \/ expire_commit(p))
                => (/\ Len(db') = Len(db)
                    /\ \A i \in Ids : db'[i].deleted_at = db[i].deleted_at)]_vars

\* a row that was resent and then revoked is still the row of its id, with the
\* e-mail, tenant and inviter it was created with, next to a second row
C21_Witness ==
    /\ Len(db) = 2
    /\ db[1].status = "REVOKED"
    /\ db[1].token_hash = <<"sha256", 2>>
    /\ db[1].email = "a@x.com"
    /\ db[1].tenant_id = "T1"
    /\ db[1].invited_by = "u1"
    /\ db[1].created_at = 0

\* C22: the pages of one list query, put together in order, are the whole result
\* set, ordered by created_at descending, every row once: here the two pages of
\* size 1 of a tenant with two invitations, also when both have one created_at.
C22_PagesReproduceTheResult ==
    \A p, q \in Procs :
        (/\ res[p].op = "list" /\ res[q].op = "list"
         /\ res[p].kind = "ok" /\ res[q].kind = "ok"
         /\ res[p].page_size = 1 /\ res[q].page_size = 1
         /\ res[p].page = 1 /\ res[q].page = 2
         /\ res[p].total = 2 /\ res[q].total = 2)
        => /\ res[p].pages = 2 /\ res[q].pages = 2
           /\ LET all == res[p].items \o res[q].items
              IN  /\ Len(all) = 2
                  /\ all[1] # all[2]
                  /\ {all[1], all[2]} = list_query("T1", NoFilter)
                  /\ db[all[1]].created_at >= db[all[2]].created_at

\* C23: whatever page and page_size are asked for, list works with a page_size of
\* at most max_page_size and a page of at least 1, its offset
\* (page - 1) * page_size is not negative, and it returns at most max_page_size
\* items.
C23_ClampedPageAndSize ==
    /\ call[1].pc = "list_items" =>
          /\ call[1].page_size <= 100
          /\ call[1].page >= 1
          /\ (call[1].page - 1) * call[1].page_size >= 0
    /\ (res[1].op = "list" /\ res[1].kind = "ok") =>
          /\ res[1].page_size <= 100
          /\ res[1].page >= 1
          /\ Len(res[1].items) <= 100

\* C24: a list call whose effective page_size is not negative returns; its total is
\* the number of rows of the query before pagination, and its pages is
\* ceil(total / page_size), 0 when total is 0.
C24_TotalAndPages ==
    [][(list_items(1) /\ call[1].page_size >= 0) =>
          /\ res'[1].kind = "ok"
          /\ res'[1].total = Cardinality({i \in Ids : /\ db[i].tenant_id = call[1].arg.tenant_id
                                                     /\ db[i].deleted_at = None})
          /\ res'[1].total = 0 => res'[1].pages = 0
          /\ res'[1].total > 0 =>
                /\ res'[1].pages * res'[1].page_size >= res'[1].total
                /\ (res'[1].pages - 1) * res'[1].page_size < res'[1].total]_vars

C26_TotalIsSumOfStatuses ==
    res[1].op = "get_stats" =>
        res[1].total = res[1].pending + res[1].accepted + res[1].expired + res[1].revoked

\* C27: when the commit of create, accept, revoke, resend or the sweep raises, the
\* call ends with the store's exception (not with ValueError and not with a
\* result, so the route answers 500 and not 400 or 2xx), it is not tried again,
\* and the rows, the e-mails sent and the clock are as before.
C27_StoreFailurePropagates ==
    [][commit_fails(1) =>
          /\ res'[1].kind = "OperationalError"
          /\ res'[1].op = commit_op(call[1])
          /\ http_status(res'[1]) = 500
          /\ call'[1].pc = "idle"
          /\ db' = db
          /\ outbox' = outbox]_vars

\* an accept of an invitation past its expiry whose commit of EXPIRED failed: the
\* caller has the store's exception and the row is still PENDING
C27_Witness ==
    /\ res[1].op = "accept"
    /\ res[1].kind = "OperationalError"
    /\ Len(db) >= 1
    /\ db[1].status = "PENDING"
    /\ db[1].expires_at < now
    /\ res[1].arg = <<"token", 1>>

\* C28: the membership service is called only for an accept that has returned the
\* invitation, with ACCEPTED committed for it, and with the tenant, the clients and
\* the role groups of that invitation and the user who accepted; never after an
\* accept that raised; and, the calls made one after another, once per invitation
\* at most.
C28_MembershipAfterAccept ==
    [][/\ accept_commit(1) => (current_user'[1] = Some(call[1].caller.user) /\ members' = members)
       /\ members' # members =>
             /\ Len(members') = Len(members) + 1
             /\ \A k \in 1..Len(members) : members'[k] = members[k]
             /\ res[1].op = "accept"
             /\ res[1].kind = "ok"
             /\ LET m == members'[Len(members')]
                IN  /\ m.invitation = res[1].id
                    /\ db[m.invitation].status = "ACCEPTED"
                    /\ db[m.invitation].accepted_at # None
                    /\ db[m.invitation].token_hash = <<"sha256", res[1].arg[2]>>
                    /\ m.user_id = current_user[1][1]
                    /\ m.tenant_id = db[m.invitation].tenant_id
                    /\ m.client_ids = db[m.invitation].client_ids
                    /\ m.role_group_ids = db[m.invitation].role_group_ids
                    /\ \A k \in 1..Len(members) : members[k].invitation # m.invitation
       /\ (res'[1].op = "accept" /\ res'[1].kind # "ok") => members' = members]_vars

\* user u2 has accepted the invitation user u1 sent for tenant T1, and the
\* membership service was called once, for u2, T1, client c1 and role group g1
C28_Witness ==
    /\ members = <<[user_id |-> "u2", invitation |-> 1, tenant_id |-> "T1",
                    client_ids |-> Some(<<"c1">>), role_group_ids |-> Some(<<"g1">>)]>>
    /\ db[1].invited_by = "u1"
    /\ db[1].status = "ACCEPTED"

\* C29: an e-mail is sent, or fails to be sent, only in a step of the route after
\* create or resend has returned, for the token that call committed; no step of
\* create, accept, revoke, resend or the sweep sends one; and a sending that fails
\* leaves the rows as committed: the invitation PENDING with the hash of the new
\* token, so that the token before a resend finds nothing.
C29_NotifyAfterCommit ==
    [][/\ (outbox' # outbox \/ logged' # logged) =>
             /\ call[1].pc = "idle"
             /\ call'[1].pc = "idle"
             /\ res[1].op \in {"create", "resend"}
             /\ res[1].kind = "ok"
             /\ res' = res
             /\ (outbox' \ outbox) \cup (logged' \ logged) =
                    {[to |-> db[res[1].id].email, token |-> res[1].token]}
             /\ db[res[1].id].token_hash = <<"sha256", res[1].token[2]>>
       /\ (call' # call \/ db' # db) => (outbox' = outbox /\ logged' = logged)
       /\ logged' # logged =>
             /\ db' = db
             /\ db'[res[1].id].status = "PENDING"
             /\ db'[res[1].id].token_hash = <<"sha256", res[1].token[2]>>
             /\ \A n \in 1..MaxTokens :
                   n # res[1].token[2] =>
                      \A i \in Ids : db'[i].token_hash = <<"sha256", n>> => i # res[1].id]_vars

\* the e-mail of a create was sent, the e-mail of the resend that followed was
\* not: the row is PENDING with the hash of the second token, and the first token
\* finds nothing
C29_Witness ==
    /\ outbox = {[to |-> "a@x.com", token |-> <<"token", 1>>]}
    /\ logged = {[to |-> "a@x.com", token |-> <<"token", 2>>]}
    /\ res[1].op = "resend"
    /\ db[1].status = "PENDING"
    /\ db[1].token_hash = <<"sha256", 2>>
    /\ get_by_token(<<"token", 1>>) = {}

\* C30: in every state the timestamps of a row agree with its status: accepted_at
\* is set exactly when the status is ACCEPTED, revoked_at and revoked_by exactly
\* when it is REVOKED, and no row has both accepted_at and revoked_at, also when
\* accept and revoke interleave on one invitation.
C30_TimestampsAgreeWithStatus ==
    \A i \in Ids :
        /\ db[i].accepted_at # None <=> db[i].status = "ACCEPTED"
        /\ db[i].revoked_at # None <=> db[i].status = "REVOKED"
        /\ db[i].revoked_by # None <=> db[i].status = "REVOKED"
        /\ ~(db[i].accepted_at # None /\ db[i].revoked_at # None)

\* C31: no invitation is accepted after its expiry: every ACCEPTED row has
\* accepted_at set and not later than expires_at, also when the clock moves on
\* between the expiry check of accept and the reading that stamps accepted_at.
C31_AcceptedBeforeExpiry ==
    \A i \in Ids :
        db[i].status = "ACCEPTED" =>
            /\ db[i].accepted_at # None
            /\ db[i].accepted_at[1] <= db[i].expires_at

\* C32: a create for a tenant and an e-mail whose invitations are all ACCEPTED,
\* EXPIRED, REVOKED or soft-deleted passes the pre-check and inserts a new row
\* with an id and a token of its own; an invitation that is not PENDING never
\* causes Conflict.
C32_CreateAfterTerminal ==
    [][/\ \A req \in CreateRequests, c \in Callers :
             (/\ create_check(1, req, c)
              /\ \A i \in Ids : (/\ db[i].tenant_id = c.tenant
                                 /\ db[i].email = "a@x.com"
                                 /\ db[i].deleted_at = None) => db[i].status # "PENDING")
                 => /\ call'[1].pc = "create_insert"
                    /\ res'[1] = NoResult
                    /\ db' = db
       /\ create_insert(1) =>
             /\ Len(db') = Len(db) + 1
             /\ \A i \in Ids : db'[i] = db[i]
             /\ res'[1] = Returned("create", call[1].req.email, Len(db) + 1,
                                   <<"token", issued + 1>>)
             /\ db'[Len(db')].status = "PENDING"
             /\ db'[Len(db')].tenant_id = call[1].caller.tenant
             /\ db'[Len(db')].email = "a@x.com"
             /\ db'[Len(db')].token_hash = <<"sha256", issued + 1>>
             /\ \A i \in Ids : db[i].token_hash # db'[Len(db')].token_hash]_vars

\* the invitation of a@x.com in T1 was revoked, and a create for it then gave a
\* second row with a token of its own
C32_Witness ==
    /\ Len(db) = 2
    /\ db[1].status = "REVOKED"
    /\ db[2].status = "PENDING"
    /\ db[1].tenant_id = db[2].tenant_id
    /\ db[1].email = db[2].email
    /\ db[1].token_hash # db[2].token_hash
    /\ res[1].op = "create"
    /\ res[1].kind = "ok"
    /\ res[1].id = 2

\* C33: an invitation that is still PENDING after its expires_at has passed blocks
\* a create for its tenant and e-mail with Conflict; once the sweep, an accept
\* after expiry or a revoke has taken it out of PENDING, the create passes.
C33_ExpiredPendingBlocksCreate ==
    [][\A req \in CreateRequests, c \in Callers :
          create_check(1, req, c) =>
              /\ (\E i \in Ids : /\ db[i].tenant_id = c.tenant
                                 /\ db[i].email = "a@x.com"
                                 /\ db[i].deleted_at = None
                                 /\ db[i].status = "PENDING"
                                 /\ db[i].expires_at < now)
                    => /\ res'[1] = Raised("create", req.email, "ValueError",
                              <<"Pending invitation already exists for", req.email>>)
                       /\ call'[1].pc = "idle"
                       /\ db' = db
              /\ (/\ \E i \in Ids : /\ db[i].tenant_id = c.tenant
                                    /\ db[i].email = "a@x.com"
                                    /\ db[i].deleted_at = None
                                    /\ db[i].status \in {"EXPIRED", "REVOKED"}
                                    /\ db[i].expires_at < now
                  /\ \A i \in Ids : (/\ db[i].tenant_id = c.tenant
                                     /\ db[i].email = "a@x.com"
                                     /\ db[i].deleted_at = None) => db[i].status # "PENDING")
                    => call'[1].pc = "create_insert"]_vars

\* a create was refused with Conflict, and the one invitation of the table is
\* PENDING past its expiry
C33_Witness ==
    /\ res[1] = Conflict("A@x.com")
    /\ Len(db) = 1
    /\ db[1].status = "PENDING"
    /\ db[1].deleted_at = None
    /\ db[1].expires_at < now
    /\ ops = 2

\* the invitation of that id is PENDING with its expires_at in the past, and the
\* caller's tenant can see it
PendingPastExpiry(i, tenant) ==
    /\ i \in Ids
    /\ db[i].tenant_id = tenant
    /\ db[i].deleted_at = None
    /\ db[i].status = "PENDING"
    /\ db[i].expires_at < now

\* C34: resend and revoke do not look at the expiry.  On an invitation PENDING
\* past its expires_at, resend goes through: new token, expires_at = now + 7
\* days, still PENDING, and an accept with the new token then succeeds; revoke
\* goes through and leaves REVOKED, not EXPIRED.
C34_NoExpiryCheckInResendAndRevoke ==
    [][/\ \A i \in 1..MaxRows, c \in Callers :
             (resend_read(1, i, c) /\ PendingPastExpiry(i, c.tenant))
                 => (call'[1].pc = "resend_commit" /\ res'[1] = NoResult)
       /\ (resend_commit(1) /\ db[call[1].inv.id].expires_at < now) =>
             /\ res'[1] = Returned("resend", call[1].inv.id, call[1].inv.id,
                                   <<"token", issued + 1>>)
             /\ db'[call[1].inv.id].status = "PENDING"
             /\ db'[call[1].inv.id].token_hash = <<"sha256", issued + 1>>
             /\ db'[call[1].inv.id].expires_at = now + 7
       /\ (/\ accept_check(1)
           /\ db[call[1].inv.id].status = "PENDING"
           /\ db[call[1].inv.id].expires_at > db[call[1].inv.id].created_at + 14
           /\ db[call[1].inv.id].expires_at >= now)
             => call'[1].pc = "accept_commit"
       /\ (accept_commit(1) /\ db[call[1].inv.id].expires_at > db[call[1].inv.id].created_at + 14)
             => /\ res'[1].kind = "ok"
                /\ db'[call[1].inv.id].status = "ACCEPTED"
       /\ \A i \in 1..MaxRows, c \in Callers :
             (revoke_read(1, i, c) /\ PendingPastExpiry(i, c.tenant))
                 => (call'[1].pc = "revoke_commit" /\ res'[1] = NoResult)
       /\ (revoke_commit(1) /\ db[call[1].inv.id].expires_at < now) =>
             /\ res'[1].kind = "ok"
             /\ db'[call[1].inv.id].status = "REVOKED"]_vars

\* an invitation created on day 0 was resent on day 8, after its expiry on day 7,
\* and then accepted with the second token
C34_Witness ==
    /\ Len(db) >= 1
    /\ db[1].created_at = 0
    /\ db[1].expires_at = 15
    /\ db[1].token_hash = <<"sha256", 2>>
    /\ db[1].status = "ACCEPTED"
    /\ res[1] = Returned("accept", <<"token", 2>>, 1, None)

=============================================================================
